---- MODULE Spec2Model ----
(***************************************************************************)
(* A model of src/src/handlers.rs (module easy_gnome): the typed facades   *)
(* over the system/session bus services and over the schema-keyed          *)
(* configuration store.                                                    *)
(*                                                                         *)
(* Every facade call is one action.  What the backends answer (connection, *)
(* proxy creation, method or property reply, store lookup) is chosen       *)
(* nondeterministically inside the action.  The record `result` holds the  *)
(* last call: its name, its argument, what the backends answered and what  *)
(* the call gave back to its caller:                                       *)
(*    [kind |-> "Ok",  val |-> v]    the function returned v / Ok(v)       *)
(*    [kind |-> "Err", err |-> e]    the function returned Err(e)          *)
(*    [kind |-> "Panic", at |-> s]   an unwrap() aborted at stage s        *)
(***************************************************************************)
EXTENDS Integers, Sequences, FiniteSets, TLC

VARIABLES
    ActiveProfile,  \* net.hadess.PowerProfiles ActiveProfile property (backend)
    store,          \* configuration store: <<schema, key>> -> stored string
    origin,         \* history: per store key, who wrote the stored string last
    result          \* the last facade call and what it returned

vars == <<ActiveProfile, store, origin, result>>

----------------------------------------------------------------------------
(* Results *)

Ok(v) == [kind |-> "Ok", val |-> v]
Err(e) == [kind |-> "Err", err |-> e]
Panic(stage) == [kind |-> "Panic", at |-> stage]

unit == "()"

\* What a bus round trip that carries no value can answer.
BusUnit == {Ok(unit), Err("zbus::Error")}

\* A bus query that was not made, because an earlier step failed.
NotCalled == [kind |-> "NotCalled"]

\* The answers to a bus query that follows the step answered with `previous`.
After(previous, answers) == IF previous.kind = "Ok" THEN answers ELSE {NotCalled}

\* No call is in progress and no result is waiting to be taken.
NoCall == [op |-> "none"]

----------------------------------------------------------------------------
(* Power profiles: handlers.rs 16-50, 202-237 *)

PowerProfile == {"PowerSaver", "Balanced", "Performance"}

\* Strings the ActiveProfile property may hold: the three canonical ones and
\* strings the match of PowerProfile::from does not know.
ProfileStrings ==
    {"power-saver", "balanced", "performance", "", "Performance", "quiet"}

as_str(self) ==
    CASE self = "PowerSaver" -> "power-saver"
      [] self = "Balanced" -> "balanced"
      [] self = "Performance" -> "performance"

from_unknown_is_performance(profile) ==
    CASE profile = "power-saver" -> "PowerSaver"
      [] profile = "balanced" -> "Balanced"
      [] profile = "performance" -> "Performance"
      [] OTHER -> "Performance"

from(profile) ==
    CASE profile = "power-saver" -> "PowerSaver"
      [] profile = "balanced" -> "Balanced"
      [] profile = "performance" -> "Performance"
      [] OTHER -> "Balanced"

\* power_off, suspend, reboot: connection, proxy and method call are each
\* unwrapped; the functions return ().
PowerManagementCall(name, stage) ==
    /\ result = NoCall
    /\ \E connection \in BusUnit : \E proxy \in After(connection, BusUnit) :
       \E reply \in After(proxy, BusUnit) :
        /\ result' = [op |-> name,
                      connection |-> connection, proxy |-> proxy, reply |-> reply,
                      ret |-> IF connection.kind = "Err" THEN Panic("connection")
                              ELSE IF proxy.kind = "Err" THEN Panic("proxy")
                              ELSE IF reply.kind = "Err" THEN Panic(stage)
                              ELSE Ok(unit)]
        /\ UNCHANGED <<ActiveProfile, store, origin>>

power_off == PowerManagementCall("power_off", "PowerOff")

suspend == PowerManagementCall("suspend", "Suspend")

reboot == PowerManagementCall("reboot", "Reboot")

get_power_profile ==
    /\ result = NoCall
    /\ \E connection \in BusUnit : \E proxy \in After(connection, BusUnit) :
       \E reply \in After(proxy, {Ok(ActiveProfile), Err("zbus::Error")}) :
        /\ result' = [op |-> "get_power_profile",
                      connection |-> connection, proxy |-> proxy, reply |-> reply,
                      ret |-> IF connection.kind = "Err" THEN Panic("connection")
                              ELSE IF proxy.kind = "Err" THEN Panic("proxy")
                              ELSE IF reply.kind = "Err" THEN Panic("ActiveProfile")
                              ELSE Ok(from(reply.val))]
        /\ UNCHANGED <<ActiveProfile, store, origin>>

set_power_profile ==
    /\ result = NoCall
    /\ \E profile \in PowerProfile :
       \E connection \in BusUnit : \E proxy \in After(connection, BusUnit) :
       \E reply \in After(proxy, BusUnit) :
            /\ result' = [op |-> "set_power_profile", arg |-> profile,
                          connection |-> connection, proxy |-> proxy,
                          reply |-> reply,
                          ret |-> IF connection.kind = "Err" THEN Panic("connection")
                                  ELSE IF proxy.kind = "Err" THEN Panic("proxy")
                                  ELSE IF reply.kind = "Err"
                                       THEN Panic("set_ActiveProfile")
                                  ELSE Ok(unit)]
            /\ ActiveProfile' = IF reply.kind = "Ok" THEN as_str(profile)
                                ELSE ActiveProfile
            /\ UNCHANGED <<store, origin>>

\* The power-profiles daemon, or another client of it, changes the property.
ProfileChangedElsewhere ==
    \E s \in ProfileStrings :
        /\ result = NoCall
        /\ ActiveProfile' = s
        /\ UNCHANGED <<store, origin, result>>

----------------------------------------------------------------------------
(* Strings written to and read from the configuration store are sequences  *)
(* of one-character strings, so that formatting and parsing are computed.  *)

TrueString == <<"t", "r", "u", "e">>

FalseString == <<"f", "a", "l", "s", "e">>

DigitChars == <<"0", "1", "2", "3", "4", "5", "6", "7", "8", "9">>

\* bool::to_string (handlers.rs 293, 486, 529, ...)
bool_to_string_capitalised(b) ==
    IF b THEN <<"T", "r", "u", "e">> ELSE <<"F", "a", "l", "s", "e">>

bool_to_string(b) == IF b THEN TrueString ELSE FalseString

\* u32::to_string: decimal, no sign, no leading zeros (handlers.rs 317, 558, ...)
RECURSIVE u32_digits(_)
u32_digits(n) ==
    IF n < 10 THEN <<DigitChars[n + 1]>>
    ELSE Append(u32_digits(n \div 10), DigitChars[(n % 10) + 1])

u32_to_string(n) == u32_digits(n)

\* str::parse::<bool>: exactly "true" or "false" (handlers.rs 286, 492, 535, ...)
parse_bool(s) ==
    IF s = TrueString THEN Ok(TRUE)
    ELSE IF s = FalseString THEN Ok(FALSE)
    ELSE Err("ParseBoolError")

IsDigit(c) == \E i \in 1..10 : DigitChars[i] = c

DigitValue(c) == (CHOOSE i \in 1..10 : DigitChars[i] = c) - 1

\* The checked accumulation of u32::from_str: acc * 10 + digit, failing on a
\* character that is no digit and on a value above u32::MAX = 4294967295.
RECURSIVE accumulate_u32(_, _)
accumulate_u32(acc, digits) ==
    IF digits = <<>> THEN Ok(acc)
    ELSE IF ~IsDigit(Head(digits)) THEN Err("InvalidDigit")
    ELSE LET d == DigitValue(Head(digits))
         IN  IF acc > 429496729 \/ (acc = 429496729 /\ d > 5)
             THEN Err("PosOverflow")
             ELSE accumulate_u32(acc * 10 + d, Tail(digits))

\* str::parse::<u32> (handlers.rs 303, 563, 581, 596): an optional leading
\* "+", then at least one decimal digit; leading zeros are accepted.
parse_u32(s) ==
    IF s = <<>> THEN Err("Empty")
    ELSE IF Len(s) = 1 /\ Head(s) \in {"+", "-"} THEN Err("InvalidDigit")
    ELSE IF Head(s) = "+" THEN accumulate_u32(0, Tail(s))
    ELSE accumulate_u32(0, s)

----------------------------------------------------------------------------
(* The configuration store behind crate::dconf (get / set / reset of a     *)
(* string at a (schema, key) pair).                                        *)

\* The (schema, key) pairs of the backend's schema registry and the default
\* string the backend holds for each.
Defaults ==
    (<<"org.gnome.settings-daemon.plugins.color", "night-light-enabled">> :> FalseString)
 @@ (<<"org.gnome.settings-daemon.plugins.color", "night-light-temperature">> :> <<"2", "7", "0", "0">>)
 @@ (<<"org.gnome.shell", "disable-user-extensions">> :> FalseString)
 @@ (<<"org.gnome.desktop.interface", "show-battery-percentage">> :> FalseString)
 @@ (<<"org.gnome.desktop.interface", "locate-pointer">> :> FalseString)
 @@ (<<"org.gnome.desktop.interface", "cursor-size">> :> <<"2", "4">>)
 @@ (<<"org.gnome.desktop.peripherals.keyboard", "delay">> :> <<"5", "0", "0">>)
 @@ (<<"org.gnome.desktop.peripherals.keyboard", "repeat-interval">> :> <<"3", "0">>)
 @@ (<<"org.gnome.desktop.peripherals.mouse", "natural-scroll">> :> FalseString)
 @@ (<<"org.gnome.desktop.peripherals.touchpad", "tap-to-click">> :> FalseString)
 @@ (<<"org.gnome.desktop.peripherals.touchpad", "two-finger-scrolling-enabled">> :> TrueString)

StoreKeys == DOMAIN Defaults

\* Values the setters are called with.
BoolValues == BOOLEAN

U32Values == {0, 6500}

\* Strings another writer of the store (outside this process) may leave: here
\* the text form of a typed value, which neither parse accepts.
ExternalStrings == {<<"u", "i", "n", "t", "3", "2", " ", "7">>}

\* At most MaxTouched keys are written (set, reset or written from outside);
\* the others stay as the backend initialised them.
MaxTouched == 2

Touched(o) == {k \in StoreKeys : o[k].by # "init"}

\* What crate::dconf::get can answer: the stored string, or a failure (store
\* unreachable, or schema/key unknown to the backend).
dconf_get(schema, key) ==
    IF <<schema, key>> \in StoreKeys
    THEN {Ok(store[<<schema, key>>]), Err("dconf")}
    ELSE {Err("dconf")}

\* What crate::dconf::set and crate::dconf::reset can answer.
dconf_write(schema, key) ==
    IF <<schema, key>> \in StoreKeys THEN {Ok(unit), Err("dconf")} ELSE {Err("dconf")}

\* The store after a write that was answered with r.
dconf_stored(schema, key, value, by, r) ==
    IF r.kind = "Ok"
    THEN /\ <<schema, key>> \in Touched(origin)
            \/ Cardinality(Touched(origin)) < MaxTouched
         /\ store' = [store EXCEPT ![<<schema, key>>] = value]
         /\ origin' = [origin EXCEPT ![<<schema, key>>] = by]
    ELSE UNCHANGED <<store, origin>>

\* value.parse::<T>() for the two target types of the getters.
parse(T, s) == IF T = "bool" THEN parse_bool(s) ELSE parse_u32(s)

\* A getter: look the string up and parse it as a T.  The parse is unwrapped in
\* every getter; a failed lookup is unwrapped when `unwrapped` (modules
\* nightlight and extensions) and returned with `?` otherwise.
Getter(name, schema, key, T, unwrapped) ==
    \E r \in dconf_get(schema, key) :
        /\ result = NoCall
        /\ result' = [op |-> name, schema |-> schema, key |-> key, reply |-> r,
                      ret |-> IF r.kind = "Err"
                              THEN IF unwrapped THEN Panic("dconf::get") ELSE r
                              ELSE IF parse(T, r.val).kind = "Err" THEN Panic("parse")
                              ELSE Ok(parse(T, r.val).val)]
        /\ UNCHANGED <<ActiveProfile, store, origin>>

\* A setter: format the value and write the string.
Setter(name, schema, key, arg, value, unwrapped) ==
    \E r \in dconf_write(schema, key) :
        /\ result = NoCall
        /\ dconf_stored(schema, key, value, [by |-> "set", op |-> name, arg |-> arg], r)
        /\ result' = [op |-> name, schema |-> schema, key |-> key, arg |-> arg,
                      reply |-> r,
                      ret |-> IF r.kind = "Err" /\ unwrapped THEN Panic("dconf::set")
                              ELSE r]
        /\ UNCHANGED ActiveProfile

\* A reset: the backend puts its default back.
Resetter(name, schema, key, unwrapped) ==
    \E r \in dconf_write(schema, key) :
        /\ result = NoCall
        /\ dconf_stored(schema, key,
                        IF <<schema, key>> \in StoreKeys
                        THEN Defaults[<<schema, key>>] ELSE <<>>,
                        [by |-> "reset", op |-> name, arg |-> unit], r)
        /\ result' = [op |-> name, schema |-> schema, key |-> key, reply |-> r,
                      ret |-> IF r.kind = "Err" /\ unwrapped THEN Panic("dconf::reset")
                              ELSE r]
        /\ UNCHANGED ActiveProfile

\* Another process writes a string of its own to a key of the store.
StoreWrittenElsewhere ==
    \E k \in StoreKeys, s \in ExternalStrings :
        /\ result = NoCall
        /\ dconf_stored(k[1], k[2], s, [by |-> "external", op |-> "none", arg |-> unit],
                        Ok(unit))
        /\ UNCHANGED <<ActiveProfile, result>>


----------------------------------------------------------------------------
(* mod nightlight: handlers.rs 278-321 *)

get_nightlight_active ==
    Getter("get_nightlight_active",
           "org.gnome.settings-daemon.plugins.color", "night-light-enabled",
           "bool", TRUE)

set_nightlight_active ==
    \E active \in BoolValues :
        Setter("set_nightlight_active",
               "org.gnome.settings-daemon.plugins.color", "night-light-enabled",
               active, bool_to_string(active), TRUE)

get_temperature ==
    Getter("get_temperature",
           "org.gnome.settings-daemon.plugins.color", "night-light-temperature",
           "u32", TRUE)

reset_temperature ==
    Resetter("reset_temperature",
             "org.gnome.settings-daemon.plugins.color", "night-light-temperature",
             TRUE)

set_temperature ==
    \E temperature \in U32Values :
        Setter("set_temperature",
               "org.gnome.settings-daemon.plugins.color", "night-light-temperature",
               temperature, u32_to_string(temperature), TRUE)

(* mod extensions, the store-keyed part: handlers.rs 482-496 *)

set_extensions_active ==
    \E active \in BoolValues :
        Setter("set_extensions_active", "org.gnome.shell", "disable-user-extensions",
               active, bool_to_string(active), TRUE)

get_extensions_active ==
    Getter("get_extensions_active", "org.gnome.shell", "disable-user-extensions",
           "bool", TRUE)

reset_extensions_active ==
    Resetter("reset_extensions_active", "org.gnome.shell", "disable-user-extensions",
             TRUE)

(* mod interface: handlers.rs 524-568 *)

set_show_battery_percentage ==
    \E show \in BoolValues :
        Setter("set_show_battery_percentage",
               "org.gnome.desktop.interface", "show-battery-percentage",
               show, bool_to_string(show), FALSE)

get_show_battery_percentage ==
    Getter("get_show_battery_percentage",
           "org.gnome.desktop.interface", "show-battery-percentage",
           "bool", FALSE)

reset_show_battery_percentage ==
    Resetter("reset_show_battery_percentage",
             "org.gnome.desktop.interface", "show-battery-percentage", FALSE)

set_locate_pointer ==
    \E enabled \in BoolValues :
        Setter("set_locate_pointer", "org.gnome.desktop.interface", "locate-pointer",
               enabled, bool_to_string(enabled), FALSE)

get_locate_pointer ==
    Getter("get_locate_pointer", "org.gnome.desktop.interface", "locate-pointer",
           "bool", FALSE)

reset_locate_pointer ==
    Resetter("reset_locate_pointer", "org.gnome.desktop.interface", "locate-pointer",
             FALSE)

set_cursor_size ==
    \E size \in U32Values :
        Setter("set_cursor_size", "org.gnome.desktop.interface", "cursor-size",
               size, u32_to_string(size), FALSE)

get_cursor_size ==
    Getter("get_cursor_size", "org.gnome.desktop.interface", "cursor-size",
           "u32", FALSE)

reset_cursor_size ==
    Resetter("reset_cursor_size", "org.gnome.desktop.interface", "cursor-size", FALSE)

(* mod peripherals: handlers.rs 570-650 *)

set_keyboard_press_delay ==
    \E delay \in U32Values :
        Setter("set_keyboard_press_delay",
               "org.gnome.desktop.peripherals.keyboard", "delay",
               delay, u32_to_string(delay), FALSE)

get_keyboard_press_delay ==
    Getter("get_keyboard_press_delay",
           "org.gnome.desktop.peripherals.keyboard", "delay", "u32", FALSE)

reset_keyboard_press_delay_other_key ==
    Resetter("reset_keyboard_press_delay",
             "org.gnome.desktop.peripherals.keyboard", "repeat-interval", FALSE)

reset_keyboard_press_delay ==
    Resetter("reset_keyboard_press_delay",
             "org.gnome.desktop.peripherals.keyboard", "delay", FALSE)

set_keyboard_repeat_interval ==
    \E interval \in U32Values :
        Setter("set_keyboard_repeat_interval",
               "org.gnome.desktop.peripherals.keyboard", "repeat-interval",
               interval, u32_to_string(interval), FALSE)

get_keyboard_repeat_interval ==
    Getter("get_keyboard_repeat_interval",
           "org.gnome.desktop.peripherals.keyboard", "repeat-interval",
           "u32", FALSE)

reset_keyboard_repeat_interval ==
    Resetter("reset_keyboard_repeat_interval",
             "org.gnome.desktop.peripherals.keyboard", "repeat-interval", FALSE)

set_mouse_natural_scroll ==
    \E enabled \in BoolValues :
        Setter("set_mouse_natural_scroll",
               "org.gnome.desktop.peripherals.mouse", "natural-scroll",
               enabled, bool_to_string(enabled), FALSE)

get_mouse_natural_scroll ==
    Getter("get_mouse_natural_scroll",
           "org.gnome.desktop.peripherals.mouse", "natural-scroll", "bool", FALSE)

reset_mouse_natural_scroll ==
    Resetter("reset_mouse_natural_scroll",
             "org.gnome.desktop.peripherals.mouse", "natural-scroll", FALSE)

set_touchpad_tap_to_click ==
    \E enabled \in BoolValues :
        Setter("set_touchpad_tap_to_click",
               "org.gnome.desktop.peripherals.touchpad", "tap-to-click",
               enabled, bool_to_string(enabled), FALSE)

get_touchpad_tap_to_click ==
    Getter("get_touchpad_tap_to_click",
           "org.gnome.desktop.peripherals.touchpad", "tap-to-click", "bool", FALSE)

reset_touchpad_tap_to_click ==
    Resetter("reset_touchpad_tap_to_click",
             "org.gnome.desktop.peripherals.touchpad", "tap-to-click", FALSE)

\* A setter of the two-finger setting that writes the tap-to-click key.
set_two_finger_scroll_tap_key ==
    \E enabled \in BoolValues :
        Setter("set_two_finger_scroll",
               "org.gnome.desktop.peripherals.touchpad", "tap-to-click",
               enabled, bool_to_string(enabled), FALSE)

set_two_finger_scroll ==
    \E enabled \in BoolValues :
        Setter("set_two_finger_scroll",
               "org.gnome.desktop.peripherals.touchpad", "two-finger-scrolling-enabled",
               enabled, bool_to_string(enabled), FALSE)

get_two_finger_scroll ==
    Getter("get_two_finger_scroll",
           "org.gnome.desktop.peripherals.touchpad", "two-finger-scrolling-enabled",
           "bool", FALSE)

reset_two_finger_scroll ==
    Resetter("reset_two_finger_scroll",
             "org.gnome.desktop.peripherals.touchpad", "two-finger-scrolling-enabled",
             FALSE)

----------------------------------------------------------------------------
(* Shell extensions: handlers.rs 53-169, 475-522 *)

\* zvariant values as they arrive in the a{sa{sv}} reply: a tag and a payload.
\* A floating-point payload is held in tenths (F64(10) is 1.0, F64(995) is
\* 99.5), so that values that are no whole number are in the model.
Str(s) == [tag |-> "str", str |-> s]

F64(tenths) == [tag |-> "f64", f64 |-> tenths]

\* HashMap::get gives None for a field the entry does not have.
Absent == [tag |-> "absent"]

get(fields, key) == fields[key]

\* OwnedValue -> String and OwnedValue -> f64: only the matching variant
\* converts (handlers.rs 116, 123, 129, 138, 155).
try_into_String(value) ==
    IF value.tag = "str" THEN Ok(value.str) ELSE Err("IncorrectType")

try_into_f64(value) ==
    IF value.tag = "f64" THEN Ok(value.f64) ELSE Err("IncorrectType")

ListExtensionState ==
    {"ENABLED", "DISABLED", "ERROR", "OUT_OF_DATE", "DOWNLOADING", "INITIALIZED",
     "UNINSTALLED"}

\* The match on state_number, handlers.rs 140-149.
state_of_unknown_is_error(state_number) ==
    CASE state_number = 10 -> "ENABLED"
      [] state_number = 20 -> "DISABLED"
      [] state_number = 30 -> "ERROR"
      [] state_number = 40 -> "OUT_OF_DATE"
      [] state_number = 50 -> "DOWNLOADING"
      [] state_number = 60 -> "INITIALIZED"
      [] state_number = 990 -> "UNINSTALLED"
      [] OTHER -> "ERROR"

state_of(state_number) ==
    CASE state_number = 10 -> "ENABLED"
      [] state_number = 20 -> "DISABLED"
      [] state_number = 30 -> "ERROR"
      [] state_number = 40 -> "OUT_OF_DATE"
      [] state_number = 50 -> "DOWNLOADING"
      [] state_number = 60 -> "INITIALIZED"
      [] state_number = 990 -> "UNINSTALLED"
      [] OTHER -> "UNINSTALLED"

\* version, handlers.rs 125-132.
version_unwrapped(fields) ==
    IF get(fields, "version").tag = "absent" THEN Panic("version")
    ELSE IF try_into_String(get(fields, "version")).kind = "Err" THEN Panic("version")
    ELSE Ok(try_into_String(get(fields, "version")).val)

version_of(fields) ==
    IF get(fields, "version").tag = "absent" THEN Ok("")
    ELSE IF try_into_String(get(fields, "version")).kind = "Err" THEN Ok("")
    ELSE Ok(try_into_String(get(fields, "version")).val)

\* A required string field: .get(key).unwrap().to_owned().try_into().unwrap()
required_String(fields, key) ==
    IF get(fields, key).tag = "absent" THEN Panic(key)
    ELSE IF try_into_String(get(fields, key)).kind = "Err" THEN Panic(key)
    ELSE Ok(try_into_String(get(fields, key)).val)

\* state, handlers.rs 133-149: the field is unwrapped like a required one,
\* then matched.
state_absent_is_uninstalled(fields) ==
    IF get(fields, "state").tag = "absent" THEN Ok("UNINSTALLED")
    ELSE IF try_into_f64(get(fields, "state")).kind = "Err" THEN Panic("state")
    ELSE Ok(state_of(try_into_f64(get(fields, "state")).val))

state_field_of(fields) ==
    IF get(fields, "state").tag = "absent" THEN Panic("state")
    ELSE IF try_into_f64(get(fields, "state")).kind = "Err" THEN Panic("state")
    ELSE Ok(state_of(try_into_f64(get(fields, "state")).val))

\* One turn of the loop of list_extensions, handlers.rs 109-166: the record
\* of the entry <<uuid, fields>>, or the first unwrap that fails, in the order
\* name, description, state, url.
item_of(extension) ==
    LET uuid == extension[1]
        fields == extension[2]
        name == required_String(fields, "name")
        description == required_String(fields, "description")
        version == version_of(fields)
        state == state_field_of(fields)
        url == required_String(fields, "url")
    IN  IF name.kind # "Ok" THEN name
        ELSE IF description.kind # "Ok" THEN description
        ELSE IF version.kind # "Ok" THEN version
        ELSE IF state.kind # "Ok" THEN state
        ELSE IF url.kind # "Ok" THEN url
        ELSE Ok([uuid |-> uuid, name |-> name.val, description |-> description.val,
                 version |-> version.val, state |-> state.val, url |-> url.val])

\* A loop that puts each record in front of the ones made before it.
RECURSIVE push_front(_, _)
push_front(list, list_extension) ==
    IF list = <<>> THEN Ok(list_extension)
    ELSE IF item_of(Head(list)).kind # "Ok" THEN item_of(Head(list))
    ELSE push_front(Tail(list), <<item_of(Head(list)).val>> \o list_extension)

\* The loop: the records are pushed in iteration order; a panic ends it.
RECURSIVE push_all(_, _)
push_all(list, list_extension) ==
    IF list = <<>> THEN Ok(list_extension)
    ELSE IF item_of(Head(list)).kind # "Ok" THEN item_of(Head(list))
    ELSE push_all(Tail(list), Append(list_extension, item_of(Head(list)).val))

\* A loop that leaves out the entries it cannot decode.
RECURSIVE push_decodable(_, _)
push_decodable(list, list_extension) ==
    IF list = <<>> THEN Ok(list_extension)
    ELSE IF item_of(Head(list)).kind # "Ok" THEN push_decodable(Tail(list), list_extension)
    ELSE push_decodable(Tail(list), Append(list_extension, item_of(Head(list)).val))

list_extensions_skipping(reply) ==
    IF reply.kind = "Err" THEN Panic("ListExtensions")
    ELSE push_decodable(reply.val, <<>>)

\* ExtensionsProxy::list_extensions, handlers.rs 106-168, on the reply of
\* ListExtensions (the entries in the order the map is iterated).
list_extensions(reply) ==
    IF reply.kind = "Err" THEN Panic("ListExtensions")
    ELSE push_all(reply.val, <<>>)


\* Replies of ListExtensions.  Uuids are the keys of the outer map.
Uuids == {"a@ext", "b@ext", "c@ext"}

\* The known state codes and some unknown ones (0, 7, -1, 99.5), in tenths.
StateCodes == {10, 20, 30, 40, 50, 60, 990, 0, 70, -10, 995}

\* Every shape of one entry: each required string present, absent or of
\* another type; the version a string, a number or absent; the state a
\* floating-point code, a string or absent.
AllFields ==
    [name : {Str("Name"), F64(10), Absent},
     description : {Str("Description"), Absent},
     version : {Str("1.2"), F64(420), Absent},
     state : {F64(c) : c \in StateCodes} \cup {Str("1"), Absent},
     url : {Str("https://ext"), Absent}]

\* The shapes used in replies of more than one entry: at most one required
\* string is absent, and the state is a known code, an unknown one or absent.
SomeFields ==
    {f \in [name : {Str("Name"), Absent},
            description : {Str("Description"), Absent},
            version : {Str("1.2"), F64(420), Absent},
            state : {F64(20), F64(70), Absent},
            url : {Str("https://ext"), Absent}] :
        Cardinality({k \in {"name", "description", "url"} : f[k].tag = "absent"}) <= 1}

\* At most MaxExtensions entries in a reply.
MaxExtensions == 2

\* The sequences of n distinct uuids: the orders in which a map of n entries
\* can be iterated.
UuidOrders(n) ==
    {o \in [1..n -> Uuids] : \A i, j \in 1..n : i # j => o[i] # o[j]}

\* The fields of the entries of a reply of n entries.
FieldsOfLen(n) == [1..n -> IF n = 1 THEN AllFields ELSE SomeFields]

\* The reply whose i-th iterated entry is <<o[i], f[i]>>.
ReplyOf(o, f) == [i \in DOMAIN o |-> <<o[i], f[i]>>]

\* extensions::get_extensions, handlers.rs 497-501, with these answers of the
\* session bus.
get_extensions_result(connection, proxy, reply) ==
    /\ result' = [op |-> "get_extensions",
                  connection |-> connection, proxy |-> proxy, reply |-> reply,
                  ret |-> IF connection.kind = "Err" THEN Panic("connection")
                          ELSE IF proxy.kind = "Err" THEN Panic("proxy")
                          ELSE list_extensions(reply)]
    /\ UNCHANGED <<ActiveProfile, store, origin>>

\* The answers are: no connection or no proxy; a failed ListExtensions; a
\* reply of up to MaxExtensions entries.
get_extensions ==
    /\ result = NoCall
    /\ \/ get_extensions_result(Err("zbus::Error"), NotCalled, NotCalled)
       \/ get_extensions_result(Ok(unit), Err("zbus::Error"), NotCalled)
       \/ get_extensions_result(Ok(unit), Ok(unit), Err("zbus::Error"))
       \/ \E n \in 0..MaxExtensions :
          \E o \in UuidOrders(n), f \in FieldsOfLen(n) :
             get_extensions_result(Ok(unit), Ok(unit), Ok(ReplyOf(o, f)))

\* What EnableExtension, DisableExtension and UninstallExtension can answer.
BusBool == {Ok(TRUE), Ok(FALSE), Err("zbus::Error")}

\* The method call is unwrapped and its boolean dropped.
unwrap_true(reply, stage) ==
    IF reply.kind = "Err" THEN Panic(stage)
    ELSE IF reply.val = FALSE THEN Panic(stage)
    ELSE Ok(unit)

unwrap_dropped(reply, stage) ==
    IF reply.kind = "Err" THEN Panic(stage) ELSE Ok(unit)

\* disable_extension, enable_extension, uninstall_extension: handlers.rs 502-516.
LifecycleCall(name, stage, uuid) ==
    /\ result = NoCall
    /\ \E connection \in BusUnit : \E proxy \in After(connection, BusUnit) :
       \E reply \in After(proxy, BusBool) :
        /\ result' = [op |-> name, arg |-> uuid,
                      connection |-> connection, proxy |-> proxy, reply |-> reply,
                      ret |-> IF connection.kind = "Err" THEN Panic("connection")
                              ELSE IF proxy.kind = "Err" THEN Panic("proxy")
                              ELSE unwrap_dropped(reply, stage)]
        /\ UNCHANGED <<ActiveProfile, store, origin>>

disable_extension ==
    \E uuid \in Uuids : LifecycleCall("disable_extension", "DisableExtension", uuid)

enable_extension ==
    \E uuid \in Uuids : LifecycleCall("enable_extension", "EnableExtension", uuid)

uninstall_extension ==
    \E uuid \in Uuids : LifecycleCall("uninstall_extension", "UninstallExtension", uuid)

\* A launch_extension_prefs that hands the outcome of the method call on.
launch_extension_prefs_propagating(reply) == reply

\* ExtensionsProxy::launch_extension_prefs, handlers.rs 99-105: the outcome of
\* LaunchExtensionPrefs is replaced by () and Ok(()) is returned.
launch_extension_prefs(reply) ==
    LET discarded == IF reply.kind = "Ok" THEN reply.val ELSE unit
    IN  Ok(unit)

\* extensions::open_extension_preferences, handlers.rs 517-521.
open_extension_preferences ==
    /\ result = NoCall
    /\ \E uuid \in Uuids :
       \E connection \in BusUnit : \E proxy \in After(connection, BusUnit) :
       \E reply \in After(proxy, BusUnit) :
        /\ result' = [op |-> "open_extension_preferences", arg |-> uuid,
                      connection |-> connection, proxy |-> proxy, reply |-> reply,
                      ret |-> IF connection.kind = "Err" THEN Panic("connection")
                              ELSE IF proxy.kind = "Err" THEN Panic("proxy")
                              ELSE IF launch_extension_prefs(reply).kind = "Err"
                                   THEN Panic("launch_extension_prefs")
                              ELSE Ok(unit)]
        /\ UNCHANGED <<ActiveProfile, store, origin>>


----------------------------------------------------------------------------
(* mod battery: handlers.rs 448-473 *)

\* Object paths UPower can enumerate.  A DeviceProxy is held as its path.
DevicePaths ==
    {"/devices/battery_BAT0", "/devices/line_power_AC", "/devices/mouse_0",
     "/devices/keyboard_0", "/devices/ups_0"}

\* What the bus answers for one device: DeviceProxy::new, then the
\* IsRechargeable property (not asked for when there is no proxy).
DeviceAnswers ==
    {[proxy |-> Ok(unit), is_rechargeable |-> Ok(TRUE)],
     [proxy |-> Ok(unit), is_rechargeable |-> Ok(FALSE)],
     [proxy |-> Ok(unit), is_rechargeable |-> Err("zbus::Error: IsRechargeable")],
     [proxy |-> Err("zbus::Error: DeviceProxy"), is_rechargeable |-> NotCalled]}

\* At most MaxDevices devices are enumerated.
MaxDevices == 4

\* The enumerations of n distinct device paths.
DeviceOrders(n) ==
    {o \in [1..n -> DevicePaths] : \A i, j \in 1..n : i # j => o[i] # o[j]}

\* The loop of get_devices_battery, handlers.rs 464-470, over the devices
\* still to visit: `devices` are the paths, `answers` what the bus answers for
\* each.  It gives the outcome and, as history, the paths a proxy was asked
\* for.  A failed query returns its error at once (`?`).
RECURSIVE filter_pushing_all(_, _, _, _)
filter_pushing_all(devices, answers, devices_battery, queried) ==
    IF devices = <<>> THEN [ret |-> Ok(devices_battery), queried |-> queried]
    ELSE LET device == Head(devices)
             answer == Head(answers)
             asked == Append(queried, device)
         IN  IF answer.proxy.kind = "Err"
             THEN [ret |-> answer.proxy, queried |-> asked]
             ELSE IF answer.is_rechargeable.kind = "Err"
             THEN [ret |-> answer.is_rechargeable, queried |-> asked]
             ELSE filter_pushing_all(Tail(devices), Tail(answers),
                                     Append(devices_battery, device), asked)

\* A loop that passes over a device whose query fails and goes on.
RECURSIVE filter_skipping_failed(_, _, _, _)
filter_skipping_failed(devices, answers, devices_battery, queried) ==
    IF devices = <<>> THEN [ret |-> Ok(devices_battery), queried |-> queried]
    ELSE LET device == Head(devices)
             answer == Head(answers)
             asked == Append(queried, device)
         IN  filter_skipping_failed(
                 Tail(devices), Tail(answers),
                 IF /\ answer.proxy.kind = "Ok"
                    /\ answer.is_rechargeable.kind = "Ok"
                    /\ answer.is_rechargeable.val
                 THEN Append(devices_battery, device) ELSE devices_battery,
                 asked)

RECURSIVE filter_rechargeable(_, _, _, _)
filter_rechargeable(devices, answers, devices_battery, queried) ==
    IF devices = <<>> THEN [ret |-> Ok(devices_battery), queried |-> queried]
    ELSE LET device == Head(devices)
             answer == Head(answers)
             asked == Append(queried, device)
         IN  IF answer.proxy.kind = "Err"
             THEN [ret |-> answer.proxy, queried |-> asked]
             ELSE IF answer.is_rechargeable.kind = "Err"
             THEN [ret |-> answer.is_rechargeable, queried |-> asked]
             ELSE filter_rechargeable(
                      Tail(devices), Tail(answers),
                      IF answer.is_rechargeable.val
                      THEN Append(devices_battery, device) ELSE devices_battery,
                      asked)

\* battery::get_devices_battery, handlers.rs 458-472, with these answers of
\* the system bus; every failure is returned with `?`.
get_devices_battery_result(connection, upower, devices, answers) ==
    LET loop == IF connection.kind = "Ok" /\ upower.kind = "Ok" /\ devices.kind = "Ok"
                THEN filter_rechargeable(devices.val, answers, <<>>, <<>>)
                ELSE [ret |-> NotCalled, queried |-> <<>>]
    IN  /\ result' = [op |-> "get_devices_battery",
                      connection |-> connection, proxy |-> upower,
                      reply |-> devices, answers |-> answers,
                      queried |-> loop.queried,
                      ret |-> IF connection.kind = "Err" THEN connection
                              ELSE IF upower.kind = "Err" THEN upower
                              ELSE IF devices.kind = "Err" THEN devices
                              ELSE loop.ret]
        /\ UNCHANGED <<ActiveProfile, store, origin>>

\* The answers are: no connection, no UPower proxy or a failed
\* EnumerateDevices; an enumeration of up to MaxDevices devices.
get_devices_battery ==
    /\ result = NoCall
    /\ \/ get_devices_battery_result(Err("zbus::Error"), NotCalled, NotCalled, <<>>)
       \/ get_devices_battery_result(Ok(unit), Err("zbus::Error"), NotCalled, <<>>)
       \/ get_devices_battery_result(Ok(unit), Ok(unit), Err("zbus::Error"), <<>>)
       \/ \E n \in 0..MaxDevices :
          \E o \in DeviceOrders(n), a \in [1..n -> DeviceAnswers] :
             get_devices_battery_result(Ok(unit), Ok(unit), Ok(o), a)

\* battery::get_current_device_battery, handlers.rs 452-457.
get_current_device_battery ==
    /\ result = NoCall
    /\ \E connection \in BusUnit : \E upower \in After(connection, BusUnit) :
       \E device \in After(upower, {Ok(p) : p \in DevicePaths} \cup {Err("zbus::Error")}) :
        /\ result' = [op |-> "get_current_device_battery",
                      connection |-> connection, proxy |-> upower, reply |-> device,
                      ret |-> IF connection.kind = "Err" THEN connection
                              ELSE IF upower.kind = "Err" THEN upower
                              ELSE device]
        /\ UNCHANGED <<ActiveProfile, store, origin>>


----------------------------------------------------------------------------
(* The caller.  Calls are made one after the other: a call starts when the *)
(* result of the previous one has been taken.  After a panic the caller is *)
(* gone and it is another caller that goes on; the backends keep their     *)
(* state either way.                                                       *)

Returned ==
    /\ result # NoCall
    /\ result' = NoCall
    /\ UNCHANGED <<ActiveProfile, store, origin>>

----------------------------------------------------------------------------
(* Specifications *)

Init ==
    /\ ActiveProfile = "balanced"
    /\ store = Defaults
    /\ origin = [k \in StoreKeys |-> [by |-> "init", op |-> "none", arg |-> unit]]
    /\ result = NoCall

\* The power facade against the login and power-profiles services.
NextPower ==
    \/ power_off
    \/ suspend
    \/ reboot
    \/ get_power_profile
    \/ set_power_profile
    \/ ProfileChangedElsewhere
    \/ Returned

SpecPower == Init /\ [][NextPower]_vars

\* The store-keyed facades against the configuration store.
NextStore ==
    \/ get_nightlight_active
    \/ set_nightlight_active
    \/ get_temperature
    \/ reset_temperature
    \/ set_temperature
    \/ set_extensions_active
    \/ get_extensions_active
    \/ reset_extensions_active
    \/ set_show_battery_percentage
    \/ get_show_battery_percentage
    \/ reset_show_battery_percentage
    \/ set_locate_pointer
    \/ get_locate_pointer
    \/ reset_locate_pointer
    \/ set_cursor_size
    \/ get_cursor_size
    \/ reset_cursor_size
    \/ set_keyboard_press_delay
    \/ get_keyboard_press_delay
    \/ reset_keyboard_press_delay
    \/ set_keyboard_repeat_interval
    \/ get_keyboard_repeat_interval
    \/ reset_keyboard_repeat_interval
    \/ set_mouse_natural_scroll
    \/ get_mouse_natural_scroll
    \/ reset_mouse_natural_scroll
    \/ set_touchpad_tap_to_click
    \/ get_touchpad_tap_to_click
    \/ reset_touchpad_tap_to_click
    \/ set_two_finger_scroll
    \/ get_two_finger_scroll
    \/ reset_two_finger_scroll
    \/ StoreWrittenElsewhere
    \/ Returned

SpecStore == Init /\ [][NextStore]_vars

\* The extensions facade against org.gnome.Shell.Extensions.
NextExtensions ==
    \/ get_extensions
    \/ disable_extension
    \/ enable_extension
    \/ uninstall_extension
    \/ open_extension_preferences
    \/ Returned

SpecExtensions == Init /\ [][NextExtensions]_vars

\* The battery facade against UPower.
NextBattery ==
    \/ get_current_device_battery
    \/ get_devices_battery
    \/ Returned

SpecBattery == Init /\ [][NextBattery]_vars


----------------------------------------------------------------------------
(* Properties *)

\* The last call is a completed call of `name`.
Called(name) == result.op = name

\* The bus let the call through to the method or property itself.
Reached == result.connection.kind = "Ok" /\ result.proxy.kind = "Ok"

\* The last call listed the extensions and ListExtensions gave a reply.
Listed == Called("get_extensions") /\ Reached /\ result.reply.kind = "Ok"

\* The entries of that reply and the fields of the i-th.
Entries == result.reply.val

FieldsAt(i) == Entries[i][2]

HasString(fields, key) == fields[key].tag = "str"

\* name, description and url are strings and the state is floating point:
\* nothing but the version can be missing or of another type.
Decodable(fields) ==
    /\ HasString(fields, "name")
    /\ HasString(fields, "description")
    /\ HasString(fields, "url")
    /\ fields["state"].tag = "f64"

\* C1: PowerProfile::from is total: it decodes "power-saver", "balanced" and
\* "performance" to PowerSaver, Balanced and Performance and every other
\* string to Balanced; PowerProfile::as_str encodes each variant as exactly
\* its canonical string (seen in what get_power_profile returns for the
\* property it read, and in the property set_power_profile wrote).
C1_ProfileCodec ==
    /\ (Called("get_power_profile") /\ Reached /\ result.reply.kind = "Ok") =>
          /\ result.ret.kind = "Ok"
          /\ result.reply.val = "power-saver" => result.ret.val = "PowerSaver"
          /\ result.reply.val = "balanced" => result.ret.val = "Balanced"
          /\ result.reply.val = "performance" => result.ret.val = "Performance"
          /\ result.reply.val \notin {"power-saver", "balanced", "performance"}
                => result.ret.val = "Balanced"
    /\ (Called("set_power_profile") /\ result.ret.kind = "Ok") =>
          /\ result.arg = "PowerSaver" => ActiveProfile = "power-saver"
          /\ result.arg = "Balanced" => ActiveProfile = "balanced"
          /\ result.arg = "Performance" => ActiveProfile = "performance"

C1_Witness ==
    /\ Called("get_power_profile")
    /\ result.reply = Ok("quiet")
    /\ result.ret = Ok("Balanced")

\* The code of each lifecycle state, in tenths (handlers.rs 81-87).
CodeOfState(state) ==
    CASE state = "ENABLED" -> 10
      [] state = "DISABLED" -> 20
      [] state = "ERROR" -> 30
      [] state = "OUT_OF_DATE" -> 40
      [] state = "DOWNLOADING" -> 50
      [] state = "INITIALIZED" -> 60
      [] state = "UNINSTALLED" -> 990

KnownCodes == {10, 20, 30, 40, 50, 60, 990}

\* C2: in list_extensions a floating-point state code decodes one-to-one for
\* 1, 2, 3, 4, 5, 6, 99 (the record's state is the state that has this code)
\* and to UNINSTALLED for every other value; with the other required fields
\* in place, a present floating-point code never makes the listing fail.
C2_StateDecode ==
    Listed =>
        /\ (\A i \in DOMAIN Entries : Decodable(FieldsAt(i))) => result.ret.kind = "Ok"
        /\ result.ret.kind = "Ok" =>
              \A i \in DOMAIN Entries :
                  LET code == FieldsAt(i)["state"].f64
                      state == result.ret.val[i].state
                  IN  /\ state \in ListExtensionState
                      /\ code \in KnownCodes => CodeOfState(state) = code
                      /\ code \notin KnownCodes => state = "UNINSTALLED"

C2_Witness ==
    /\ Listed
    /\ result.ret.kind = "Ok"
    /\ \E i \in DOMAIN Entries :
          /\ FieldsAt(i)["state"] = F64(995)
          /\ result.ret.val[i].state = "UNINSTALLED"

\* C3: when an entry of the reply lacks name, description or url, wherever it
\* stands among the others, list_extensions returns no list at all.
C3_AllOrNothing ==
    (Listed /\ \E i \in DOMAIN Entries :
                   \E key \in {"name", "description", "url"} :
                       FieldsAt(i)[key].tag = "absent")
        => result.ret.kind # "Ok"

C3_Witness ==
    /\ Listed
    /\ Len(Entries) = 2
    /\ Decodable(FieldsAt(1))
    /\ FieldsAt(2)["url"].tag = "absent"
    /\ result.ret = Panic("url")

\* C4 as stated: an entry whose state field is absent is decoded to a record
\* whose state is UNINSTALLED.
C4_AbsentStateIsUninstalled ==
    (Listed /\ \A i \in DOMAIN Entries :
                   /\ HasString(FieldsAt(i), "name")
                   /\ HasString(FieldsAt(i), "description")
                   /\ HasString(FieldsAt(i), "url")
                   /\ FieldsAt(i)["state"].tag \in {"f64", "absent"})
        => /\ result.ret.kind = "Ok"
           /\ \A i \in DOMAIN Entries :
                  FieldsAt(i)["state"].tag = "absent"
                      => result.ret.val[i].state = "UNINSTALLED"

\* C4 as amended: an entry whose state field is absent makes list_extensions
\* fail as a whole, as a missing name, description or url does: no list is
\* returned, and so no record with state UNINSTALLED for that entry.
C4_AbsentStateFails ==
    (Listed /\ \E i \in DOMAIN Entries : FieldsAt(i)["state"].tag = "absent")
        => result.ret.kind = "Panic"

C4_Witness ==
    /\ Listed
    /\ Len(Entries) = 1
    /\ HasString(FieldsAt(1), "name")
    /\ HasString(FieldsAt(1), "description")
    /\ HasString(FieldsAt(1), "url")
    /\ FieldsAt(1)["state"].tag = "absent"
    /\ result.ret = Panic("state")

\* C5: an entry whose version is absent, or present but no string, yields a
\* record with version "" and its other fields taken from the entry; the
\* listing does not fail for it, and the records of the other entries are
\* those of their own entries.
C5_VersionDefaultsToEmpty ==
    (Listed /\ \A i \in DOMAIN Entries : Decodable(FieldsAt(i)))
        => /\ result.ret.kind = "Ok"
           /\ Len(result.ret.val) = Len(Entries)
           /\ \A i \in DOMAIN Entries :
                 LET fields == FieldsAt(i)
                     item == result.ret.val[i]
                 IN  /\ item.uuid = Entries[i][1]
                     /\ item.name = fields["name"].str
                     /\ item.description = fields["description"].str
                     /\ item.url = fields["url"].str
                     /\ item.version = IF fields["version"].tag = "str"
                                       THEN fields["version"].str ELSE ""

C5_Witness ==
    /\ Listed
    /\ Len(Entries) = 2
    /\ FieldsAt(1)["version"] = Str("1.2")
    /\ FieldsAt(2)["version"].tag = "absent"
    /\ result.ret.kind = "Ok"
    /\ result.ret.val[1].version = "1.2"
    /\ result.ret.val[2].version = ""
    /\ result.ret.val[2].name = "Name"


\* The store-keyed settings: the facade functions of each and the typed
\* default of its (schema, key) in the backend.
Setting(getter, setter, resetter, schema, key, default) ==
    [get |-> getter, set |-> setter, reset |-> resetter, key |-> <<schema, key>>,
     default |-> default]

StoreSettings ==
    {Setting("get_nightlight_active", "set_nightlight_active", "none",
             "org.gnome.settings-daemon.plugins.color", "night-light-enabled", Ok(FALSE)),
     Setting("get_temperature", "set_temperature", "reset_temperature",
             "org.gnome.settings-daemon.plugins.color", "night-light-temperature",
             Ok(2700)),
     Setting("get_extensions_active", "set_extensions_active", "reset_extensions_active",
             "org.gnome.shell", "disable-user-extensions", Ok(FALSE)),
     Setting("get_show_battery_percentage", "set_show_battery_percentage",
             "reset_show_battery_percentage",
             "org.gnome.desktop.interface", "show-battery-percentage", Ok(FALSE)),
     Setting("get_locate_pointer", "set_locate_pointer", "reset_locate_pointer",
             "org.gnome.desktop.interface", "locate-pointer", Ok(FALSE)),
     Setting("get_cursor_size", "set_cursor_size", "reset_cursor_size",
             "org.gnome.desktop.interface", "cursor-size", Ok(24)),
     Setting("get_keyboard_press_delay", "set_keyboard_press_delay",
             "reset_keyboard_press_delay",
             "org.gnome.desktop.peripherals.keyboard", "delay", Ok(500)),
     Setting("get_keyboard_repeat_interval", "set_keyboard_repeat_interval",
             "reset_keyboard_repeat_interval",
             "org.gnome.desktop.peripherals.keyboard", "repeat-interval", Ok(30)),
     Setting("get_mouse_natural_scroll", "set_mouse_natural_scroll",
             "reset_mouse_natural_scroll",
             "org.gnome.desktop.peripherals.mouse", "natural-scroll", Ok(FALSE)),
     Setting("get_touchpad_tap_to_click", "set_touchpad_tap_to_click",
             "reset_touchpad_tap_to_click",
             "org.gnome.desktop.peripherals.touchpad", "tap-to-click", Ok(FALSE)),
     Setting("get_two_finger_scroll", "set_two_finger_scroll", "reset_two_finger_scroll",
             "org.gnome.desktop.peripherals.touchpad", "two-finger-scrolling-enabled",
             Ok(TRUE))}

\* The setter (or the reset) named `op` went through, and the key it wrote
\* has not been written since.
LastWriteBy(by, op) ==
    \E k \in StoreKeys : origin[k].by = by /\ origin[k].op = op

ValueSet(op) ==
    LET k == CHOOSE k \in StoreKeys : origin[k].by = "set" /\ origin[k].op = op
    IN  origin[k].arg

\* C6: for every store-keyed setting and every value v of its type, the
\* setter called with v and then the getter, with no other write to the key
\* in between and the store handing back the string it holds, returns v.
C6_SetThenGet ==
    \A st \in StoreSettings :
        (Called(st.get) /\ result.reply.kind = "Ok" /\ LastWriteBy("set", st.set))
            => result.ret = Ok(ValueSet(st.set))

C6_Witness ==
    /\ Called("get_cursor_size")
    /\ LastWriteBy("set", "set_cursor_size")
    /\ result.ret = Ok(6500)

\* C7: for every setting with a reset, the reset and then the getter return
\* the backend's default of the setting's (schema, key), whatever was set on
\* the key before the reset.
C7_ResetThenGet ==
    \A st \in StoreSettings :
        (Called(st.get) /\ result.reply.kind = "Ok" /\ LastWriteBy("reset", st.reset))
            => result.ret = st.default

C7_Witness ==
    /\ Called("get_keyboard_press_delay")
    /\ LastWriteBy("reset", "reset_keyboard_press_delay")
    /\ result.ret = Ok(500)

LifecycleCalls == {"enable_extension", "disable_extension", "uninstall_extension"}

\* C8: enable_extension, disable_extension, uninstall_extension and
\* open_extension_preferences complete normally whenever the bus call got a
\* reply, the reply false like the reply true; they fail only when the bus
\* (connection, proxy or method call) failed.
C8_FalseReplyIsNoFailure ==
    (result.op \in LifecycleCalls \cup {"open_extension_preferences"}) =>
        /\ (Reached /\ result.reply.kind = "Ok") => result.ret = Ok(unit)
        /\ result.ret.kind # "Ok" =>
              \/ result.connection.kind = "Err"
              \/ result.proxy.kind = "Err"
              \/ result.reply.kind = "Err"

C8_Witness ==
    /\ Called("disable_extension")
    /\ result.reply.kind = "Ok"
    /\ result.reply.val = FALSE
    /\ result.ret = Ok(unit)

\* C9 as stated: a call that meets a backend failure returns a failure value;
\* no call ends in a panic.
C9_NoPanic == result.op # "none" => result.ret.kind # "Panic"

\* The devices of the last get_devices_battery call: the enumeration, and the
\* positions in it of the devices flagged rechargeable.
Enumerated == result.reply.val

RechargeableAt(i) == result.answers[i].is_rechargeable.val

\* C10: when every bus query succeeds, get_devices_battery returns the
\* enumerated devices whose rechargeable flag is true: every returned device
\* is one of them, each of them is returned exactly once, and they keep the
\* order of the enumeration.
C10_RechargeableInOrder ==
    (/\ Called("get_devices_battery") /\ Reached /\ result.reply.kind = "Ok"
     /\ \A i \in DOMAIN Enumerated :
            /\ result.answers[i].proxy.kind = "Ok"
            /\ result.answers[i].is_rechargeable.kind = "Ok")
        => /\ result.ret.kind = "Ok"
           /\ \A j \in DOMAIN result.ret.val :
                  \E i \in DOMAIN Enumerated :
                      Enumerated[i] = result.ret.val[j] /\ RechargeableAt(i)
           /\ \A i \in DOMAIN Enumerated :
                  RechargeableAt(i) =>
                      Cardinality({j \in DOMAIN result.ret.val :
                                      result.ret.val[j] = Enumerated[i]}) = 1
           /\ \A j1, j2 \in DOMAIN result.ret.val :
                  j1 < j2 =>
                      \E i1, i2 \in DOMAIN Enumerated :
                          /\ i1 < i2
                          /\ Enumerated[i1] = result.ret.val[j1]
                          /\ Enumerated[i2] = result.ret.val[j2]

C10_Witness ==
    /\ Called("get_devices_battery")
    /\ result.reply.kind = "Ok"
    /\ Len(Enumerated) = 4
    /\ result.ret.kind = "Ok"
    /\ Len(result.ret.val) = 2
    /\ RechargeableAt(1) /\ ~RechargeableAt(2) /\ RechargeableAt(3) /\ ~RechargeableAt(4)
    /\ result.ret.val = <<Enumerated[1], Enumerated[3]>>

\* C11: when list_extensions succeeds, it returns one record per entry of the
\* reply, in the order the reply was iterated: the i-th record carries the
\* key of the i-th entry as its uuid, so no entry is left out, doubled or
\* moved.
C11_OneRecordPerEntryInOrder ==
    (Listed /\ result.ret.kind = "Ok") =>
        /\ Len(result.ret.val) = Len(Entries)
        /\ \A i \in DOMAIN Entries : result.ret.val[i].uuid = Entries[i][1]

\* Two entries iterated against the alphabetical order of their keys, with the
\* same fields, come back as two records in the iterated order.
C11_Witness ==
    /\ Listed
    /\ Len(Entries) = 2
    /\ Entries[1][1] = "b@ext"
    /\ Entries[2][1] = "a@ext"
    /\ FieldsAt(1) = FieldsAt(2)
    /\ result.ret.kind = "Ok"
    /\ Len(result.ret.val) = 2
    /\ result.ret.val[1].uuid = "b@ext"
    /\ result.ret.val[2].uuid = "a@ext"

\* C13: with the session connection and the proxy created,
\* open_extension_preferences completes normally whether LaunchExtensionPrefs
\* was answered or failed: the failure of the method call does not reach the
\* caller.
C13_LaunchFailureIsHidden ==
    (Called("open_extension_preferences") /\ Reached) =>
        /\ result.reply.kind \in {"Ok", "Err"}
        /\ result.ret = Ok(unit)

C13_Witness ==
    /\ Called("open_extension_preferences")
    /\ Reached
    /\ result.reply = Err("zbus::Error")
    /\ result.ret = Ok(unit)

\* The query of the i-th enumerated device fails: no proxy, or no answer to
\* the read of its rechargeable flag.
FailsAt(i) ==
    \/ result.answers[i].proxy.kind = "Err"
    \/ result.answers[i].is_rechargeable.kind = "Err"

\* The first enumerated device whose query fails.
FirstFailing == CHOOSE i \in DOMAIN Enumerated :
                    FailsAt(i) /\ \A j \in 1..(i - 1) : ~FailsAt(j)

\* C14: when the query of an enumerated device fails, get_devices_battery
\* returns the error of the first such device and no list, whatever the
\* devices before it answered, and it has asked for the devices up to that
\* one and for none after it.
C14_FirstFailureEndsTheCall ==
    (/\ Called("get_devices_battery") /\ Reached /\ result.reply.kind = "Ok"
     /\ \E i \in DOMAIN Enumerated : FailsAt(i))
        => /\ result.ret.kind = "Err"
           /\ result.ret = IF result.answers[FirstFailing].proxy.kind = "Err"
                           THEN result.answers[FirstFailing].proxy
                           ELSE result.answers[FirstFailing].is_rechargeable
           /\ result.queried = SubSeq(Enumerated, 1, FirstFailing)

\* A rechargeable device, then one whose flag cannot be read, then two more
\* that would have answered: the error comes back and two devices were asked.
C14_Witness ==
    /\ Called("get_devices_battery")
    /\ result.reply.kind = "Ok"
    /\ Len(Enumerated) = 4
    /\ result.answers[1] = [proxy |-> Ok(unit), is_rechargeable |-> Ok(TRUE)]
    /\ result.answers[2].proxy.kind = "Ok"
    /\ result.answers[2].is_rechargeable.kind = "Err"
    /\ result.answers[3] = [proxy |-> Ok(unit), is_rechargeable |-> Ok(TRUE)]
    /\ result.answers[4].proxy.kind = "Err"
    /\ result.ret = result.answers[2].is_rechargeable
    /\ result.queried = <<Enumerated[1], Enumerated[2]>>

\* The facade functions of a setting.
OpsOf(st) == {st.get, st.set, st.reset} \ {"none"}

\* A step that is a call of one of the functions of the setting st.
CallOf(st) == result.op = "none" /\ result'.op \in OpsOf(st)

\* C12: every call of the getter, the setter or the reset of a setting
\* addresses the one (schema, key) pair of that setting, no two settings have
\* the same pair, and the call leaves the string stored at every other pair
\* as it was (the getter leaves every pair as it was).
C12_OwnKeyOnly ==
    [][\A st \in StoreSettings :
          CallOf(st) =>
              /\ <<result'.schema, result'.key>> = st.key
              /\ \A other \in StoreSettings : other.key = st.key => other = st
              /\ \A k \in StoreKeys \ {st.key} : store'[k] = store[k]
              /\ result'.op = st.get => store' = store]_vars

\* A set of one setting went through while another setting held a value that
\* had been set on it, and that value is still there.
C12_Witness ==
    /\ Called("set_two_finger_scroll")
    /\ result.reply.kind = "Ok"
    /\ result.arg = FALSE
    /\ store[<<"org.gnome.desktop.peripherals.touchpad",
               "two-finger-scrolling-enabled">>] = FalseString
    /\ origin[<<"org.gnome.desktop.peripherals.touchpad", "tap-to-click">>].by = "set"
    /\ store[<<"org.gnome.desktop.peripherals.touchpad", "tap-to-click">>] = TrueString


====
